---- MODULE Spec2Model ----
(***************************************************************************)
(* Model of the validator monitor's polling loop (collectors/fast_poller), *)
(* with the collaborators it drives: the SQLite store (storage/database),  *)
(* the validation tracker (collectors/validation_tracker) and the alerter  *)
(* (alerts/alerter).                                                       *)
(*                                                                         *)
(* One action is one iteration of FastPoller.run(): a whole poll(),        *)
(* including the error handler it ends in.  The inputs of a poll are the   *)
(* outcome of the status fetch (a snapshot, or RippledAPIError) and the    *)
(* storage call, if any, that raises during the poll.                      *)
(*                                                                         *)
(* What the model leaves out of a poll: the peers and load_factor columns  *)
(* (copied from the snapshot into the rows and read by nothing) and the    *)
(* data of the secondary fetches (peer details, database sizes, fee),      *)
(* which only the exporter reads; the fetches themselves, which can fail,  *)
(* are modelled.  The poller is constructed without an exporter            *)
(* (prometheus = None, the constructor's default), so poll() makes no call *)
(* to it.  The wall clock advances by one unit per iteration of the loop.  *)
(*                                                                         *)
(* The exporter (exporters/prometheus_exporter) is modelled as an object   *)
(* of its own: the two methods that reconcile cumulative upstream values   *)
(* into Prometheus counters, called with any values in any order.          *)
(***************************************************************************)
EXTENDS Integers, Sequences, FiniteSets, TLC

(***************************************************************************)
(* Bounds of the model.                                                    *)
(***************************************************************************)
\* number of polls explored in the state-machine runs and in the ledger
\* runs (the clock starts at 1 and advances by 1 per poll)
MaxPolls == 5
MaxGapPolls == 4
\* largest validated-ledger sequence a snapshot reports
MaxSeq == 5
\* fast_poller.py:203 prunes the seen-set when it holds more than 1000
\* members and, at :204, removes the 500 smallest.  The two numbers are
\* scaled down here so that a run of a few polls reaches an eviction.
SeenLimit == 3
EvictCount == 2
\* number of exporter updates explored, and the largest cumulative value
\* the upstream reports
MaxUpdates == 4
MaxCount == 2
\* number of operations on the validation store explored
MaxStoreOps == 5
\* in the recovery runs: the polls with any outcome, and the polls after
\* them in which every fetch and every storage call succeeds
MaxPrefix == 3
SteadyPolls == 2

(***************************************************************************)
(* Program constants and the encoding of Python's None.                    *)
(***************************************************************************)
max_errors_before_alert == 2    \* fast_poller.py:55
SecondsPerHour == 3600          \* database.py:331
None == "None"                  \* self.last_state = None
NoneNum == -1                   \* None in a numeric field

\* states a snapshot can report that the model explores
ReportedStates == {"syncing", "full", "proposing"}
ReportedSeqs == 0..MaxSeq

VARIABLES
    \* FastPoller fields
    last_state, state_entered_at, last_ledger_seq, last_ledger_time,
    checked_ledgers, consecutive_errors,
    poll_count, state_changes, validations_checked, alerts_sent, api_errors,
    \* Database tables
    state_transitions, ledger_validations, validator_metrics,
    \* Alerter log
    alerts,
    \* environment: wall clock, and whether run() is still looping
    now, running,
    \* history: the log of all work on the seen-set, the snapshots fetched
    \* so far, a summary of the most recent poll, and how each poll ended
    checked_log, reported, last, outcomes,
    \* PrometheusExporter: the last cumulative values seen and the counters
    last_peer_disconnects, last_peer_disconnects_resources, last_jq_overflow,
    peer_disconnects, peer_disconnects_resources, jq_trans_overflow,
    \* history: every reconciliation the exporter made, per counter
    exporter_log,
    \* the result of the last statistics query, and the history of the calls
    \* made on the validation store
    stats, validation_stats, store_log

vars == <<last_state, state_entered_at, last_ledger_seq, last_ledger_time,
          checked_ledgers, consecutive_errors,
          poll_count, state_changes, validations_checked, alerts_sent,
          api_errors, state_transitions, ledger_validations,
          validator_metrics, alerts, now, running, checked_log, reported,
          last, outcomes,
          last_peer_disconnects, last_peer_disconnects_resources,
          last_jq_overflow, peer_disconnects, peer_disconnects_resources,
          jq_trans_overflow, exporter_log, stats, validation_stats,
          store_log>>

\* the fields of the poller, its stores and its history
poller_vars == <<last_state, state_entered_at, last_ledger_seq,
                 last_ledger_time, checked_ledgers, consecutive_errors,
                 poll_count, state_changes, validations_checked, alerts_sent,
                 api_errors, state_transitions, ledger_validations,
                 validator_metrics, alerts, now, running, checked_log,
                 reported, last, outcomes>>

\* the last statistics and the history of the validation store
store_vars == <<stats, validation_stats, store_log>>

\* the fields of the exporter and its history
exporter_vars == <<last_peer_disconnects, last_peer_disconnects_resources,
                   last_jq_overflow, peer_disconnects,
                   peer_disconnects_resources, jq_trans_overflow,
                   exporter_log>>

(***************************************************************************)
(* Helpers.                                                                *)
(***************************************************************************)
\* Python truthiness of an Optional[int] field: None and 0 are false
Truthy(x) == x /= NoneNum /\ x /= 0

\* range(a, b)
Range(a, b) == a..(b - 1)

\* Smallest taking the wrong end of the sorted list
Smallest_FromTheTop(S, n) == {x \in S : Cardinality({y \in S : y > x}) < n}

\* sorted(S)[:n] as a set: the n numerically smallest members of S
Smallest(S, n) == {x \in S : Cardinality({y \in S : y < x}) < n}

\* the poller object with its collaborators' stores, as one record that
\* the steps of poll() thread through; raised names the exception in flight
\* and failed_seq the ledger whose validation write raised it (0: none)
Self ==
    [last_state |-> last_state, state_entered_at |-> state_entered_at,
     last_ledger_seq |-> last_ledger_seq, last_ledger_time |-> last_ledger_time,
     checked_ledgers |-> checked_ledgers,
     consecutive_errors |-> consecutive_errors, poll_count |-> poll_count,
     state_changes |-> state_changes,
     validations_checked |-> validations_checked,
     alerts_sent |-> alerts_sent, api_errors |-> api_errors,
     state_transitions |-> state_transitions,
     ledger_validations |-> ledger_validations,
     validator_metrics |-> validator_metrics, alerts |-> alerts,
     raised |-> "none", log |-> <<>>, swallowed |-> <<>>, failed_seq |-> 0]

Raise(s, exc) == [s EXCEPT !.raised = exc]

\* The log of a poll's work on the seen-set: a "check" entry for every call
\* of check_ledger_validation that returned, made when the sequence is
\* marked as seen (seen is the seen-set before the insertion),
\* and an "evict" entry for every pruning (seen is the set that was pruned,
\* seq the insertion that triggered it, oldest what was removed).
CheckEntry(seq, seen) ==
    [op |-> "check", seq |-> seq, seen |-> seen, oldest |-> {}]
EvictEntry(seq, seen, oldest) ==
    [op |-> "evict", seq |-> seq, seen |-> seen, oldest |-> oldest]
IsCheck(e) == e.op = "check"
IsEvict(e) == e.op = "evict"
\* the sequences a log shows as evaluated, in order
Evaluated(log) ==
    LET c == SelectSeq(log, IsCheck) IN [i \in 1..Len(c) |-> c[i].seq]

(***************************************************************************)
(* Alerter.                                                                *)
(***************************************************************************)
\* Severity reading the state that is left
Severity_ByOldState(old_state, new_state) ==
    IF old_state \in {"disconnected", "syncing"} THEN "CRITICAL"
    ELSE IF old_state = "tracking" THEN "WARNING"
    ELSE IF old_state = "proposing" THEN "INFO"
    ELSE "WARNING"

\* Alerter.state_change: the severity of a state-change alert
Severity(old_state, new_state) ==
    IF new_state \in {"disconnected", "syncing"} THEN "CRITICAL"
    ELSE IF new_state = "tracking" THEN "WARNING"
    ELSE IF new_state = "proposing" THEN "INFO"
    ELSE "WARNING"

\* Alerter.alert: append to the alert log (a failed file write is swallowed)
Alert(s, level, old_state, new_state) ==
    [s EXCEPT !.alerts = Append(@, [level |-> level, old_state |-> old_state,
                                    new_state |-> new_state])]

(***************************************************************************)
(* Database.                                                               *)
(***************************************************************************)
\* write_state_transition that returns without storing the row
write_state_transition_Dropped(s, timestamp, old_state, new_state, duration, ledger_seq) == s

\* Database.write_state_transition: INSERT one row
write_state_transition(s, timestamp, old_state, new_state, duration, ledger_seq) ==
    [s EXCEPT !.state_transitions =
        Append(@, [timestamp |-> timestamp, old_state |-> old_state,
                   new_state |-> new_state,
                   duration_in_old_state |-> duration,
                   ledger_seq |-> ledger_seq])]

\* write_ledger_validation as a plain INSERT into a table without the key
write_ledger_validation_Insert(s, timestamp, ledger_seq, server_state, was_proposing, should_validate, did_validate, agreed) ==
    [s EXCEPT !.ledger_validations =
        @ \cup
        {[timestamp |-> timestamp, ledger_seq |-> ledger_seq,
          server_state |-> server_state, was_proposing |-> was_proposing,
          should_validate |-> should_validate,
          did_validate |-> did_validate, agreed |-> agreed]}]

\* Database.write_ledger_validation: INSERT OR REPLACE keyed by the UNIQUE
\* ledger_seq column
write_ledger_validation(s, timestamp, ledger_seq, server_state, was_proposing, should_validate, did_validate, agreed) ==
    [s EXCEPT !.ledger_validations =
        {r \in @ : r.ledger_seq /= ledger_seq} \cup
        {[timestamp |-> timestamp, ledger_seq |-> ledger_seq,
          server_state |-> server_state, was_proposing |-> was_proposing,
          should_validate |-> should_validate,
          did_validate |-> did_validate, agreed |-> agreed]}]

\* Database.write_metrics: INSERT one row
write_metrics(s, timestamp, server_state, ledger_seq) ==
    [s EXCEPT !.validator_metrics =
        Append(@, [timestamp |-> timestamp, server_state |-> server_state,
                   ledger_seq |-> ledger_seq])]

\* InWindow leaving out the record at the cutoff
InWindow_Strict(r, cutoff) == r.timestamp > cutoff

\* database.py:343  WHERE timestamp >= ?
InWindow(r, cutoff) == r.timestamp >= cutoff

\* Percent without the factor 100
Percent_Unscaled(n, d) ==
    IF d > 0 THEN [num |-> n, den |-> d] ELSE [num |-> 0, den |-> 1]

\* database.py:352  (validated / total * 100) if total > 0 else 0, as the
\* exact fraction num / den
Percent(n, d) ==
    IF d > 0 THEN [num |-> n * 100, den |-> d] ELSE [num |-> 0, den |-> 1]

\* Database.get_validation_stats_period, called at time on the rows
get_validation_stats_period(rows, time, hours) ==
    LET cutoff == time - (hours * SecondsPerHour)
        window == {r \in rows : InWindow(r, cutoff)}
        total == Cardinality(window)
        validated == Cardinality({r \in window : r.did_validate /\ r.agreed})
        missed == Cardinality({r \in window :
                                  r.should_validate /\ ~r.did_validate})
    IN  IF total > 0
        THEN [hours |-> hours, total_checked |-> total,
              validated_count |-> validated, missed_count |-> missed,
              agreement_rate |-> Percent(validated, total)]
        ELSE [hours |-> hours, total_checked |-> 0, validated_count |-> 0,
              missed_count |-> 0, agreement_rate |-> [num |-> 0, den |-> 1]]

\* database.py:305-306  (n / d * 100) if d > 0 else 0, as the exact
\* fraction num / den
Rate(n, d) ==
    IF d > 0 THEN [num |-> n * 100, den |-> d] ELSE [num |-> 0, den |-> 1]

\* Database.get_validation_stats, called at time on the rows
get_validation_stats(rows, time, hours) ==
    LET cutoff == time - (hours * SecondsPerHour)
        window == {r \in rows : InWindow(r, cutoff)}
        total == Cardinality(window)
        expected == Cardinality({r \in window : r.should_validate})
        validated == Cardinality({r \in window : r.did_validate})
        agreed == Cardinality({r \in window : r.agreed})
        missed == Cardinality({r \in window :
                                  r.should_validate /\ ~r.did_validate})
        disagreed == Cardinality({r \in window :
                                     r.did_validate /\ ~r.agreed})
    IN  [hours |-> hours, total_ledgers |-> total,
         expected_validations |-> expected, actual_validations |-> validated,
         agreements |-> agreed, disagreements |-> disagreed,
         missed |-> missed,
         agreement_rate |-> Rate(agreed, validated),
         validation_rate |-> Rate(validated, expected)]

(***************************************************************************)
(* ValidationTracker.                                                      *)
(***************************************************************************)
\* check_ledger_validation recording every ledger as validated
check_ledger_validation_Validates(s, timestamp, ledger_seq, server_state, fails) ==
    LET was_proposing == (server_state = "proposing")
    IN  IF fails THEN Raise(s, "StorageError")
        ELSE write_ledger_validation(s, timestamp, ledger_seq, server_state,
                                     was_proposing, was_proposing, TRUE,
                                     was_proposing)

\* ValidationTracker.check_ledger_validation; fails says that the store
\* raises in write_ledger_validation, which the tracker lets through
check_ledger_validation(s, timestamp, ledger_seq, server_state, fails) ==
    LET was_proposing == (server_state = "proposing")
        should_validate == was_proposing
        did_validate == was_proposing
        agreed == was_proposing
    IN  IF fails THEN Raise(s, "StorageError")
        ELSE write_ledger_validation(s, timestamp, ledger_seq, server_state,
                                     was_proposing, should_validate,
                                     did_validate, agreed)

(***************************************************************************)
(* RippledAPI.                                                             *)
(***************************************************************************)
\* the ways a docker exec of rippled fails
FetchFailures == {"timeout", "nonzero_exit", "malformed_json", "transport_error"}

\* Call letting the JSON decoder's exception through
Call_JsonErrorEscapes(failure) ==
    IF failure = "malformed_json" THEN "JSONDecodeError" ELSE "RippledAPIError"

\* RippledAPI._call: the exception a failed call leaves with.  A non-zero
\* exit status and a JSONDecodeError are raised as RippledAPIError inside
\* the try block and wrapped again by its 'except Exception'; a timeout and
\* any other exception of subprocess.run are converted by the two except
\* clauses
Call(failure) ==
    CASE failure = "timeout" -> "RippledAPIError"
      [] failure = "nonzero_exit" -> "RippledAPIError"
      [] failure = "malformed_json" -> "RippledAPIError"
      [] OTHER -> "RippledAPIError"

(***************************************************************************)
(* FastPoller.poll, step by step.  fault names the call that raises in     *)
(* this poll ("none" when every call succeeds): a storage call or one of   *)
(* the secondary fetches; for write_ledger_validation, fail_at is the call *)
(* (first, second, ...) that raises.                                       *)
(***************************************************************************)
\* a key that a status response does not hold
Absent == "absent"
AbsentNum == -2

\* fast_poller.py:90  state_info.get('server_state', 'unknown')
ExtractState(info) ==
    IF info.server_state = Absent THEN "unknown" ELSE info.server_state

\* fast_poller.py:91  int(state_info.get('validated_ledger', {}).get('seq', 0))
ExtractSeq(info) ==
    IF info.validated_ledger = AbsentNum THEN 0 ELSE info.validated_ledger

\* the secondary fetches of a poll
SecondaryFetchCalls == {"get_peers", "get_database_sizes", "get_fee"}

\* a call of the API that fails when it is the one named by fault
Attempt(s, call, fault) ==
    IF fault = call THEN Raise(s, Call("nonzero_exit")) ELSE s

\* try: ... except Exception: the exception of the attempted call is caught
\* and the poll goes on from s with the defaults
Swallow(s, attempted, call) ==
    IF attempted.raised /= "none"
    THEN [s EXCEPT !.swallowed = Append(@, call)]
    ELSE attempted

\* fast_poller.py:123-145  peer details every 10 polls, database sizes
\* every 60, the fee (for the transaction rate) once a ledger is tracked
SecondaryFetches(s, fault) ==
    LET a == IF s.poll_count % 10 = 0
             THEN Swallow(s, Attempt(s, "get_peers", fault), "get_peers")
             ELSE s
        b == IF a.poll_count % 60 = 0
             THEN Swallow(a, Attempt(a, "get_database_sizes", fault),
                          "get_database_sizes")
             ELSE a
    IN  IF Truthy(b.last_ledger_seq) /\ Truthy(b.last_ledger_time)
        THEN Swallow(b, Attempt(b, "get_fee", fault), "get_fee")
        ELSE b
\* StateChanged without the comparison of the two states
StateChanged_NoComparison(s, current_state) == s.last_state /= None

\* StateChanged without the guard on a first observation
StateChanged_NoNoneGuard(s, current_state) == current_state /= s.last_state

\* fast_poller.py:152  if self.last_state and current_state != self.last_state
StateChanged(s, current_state) ==
    s.last_state /= None /\ current_state /= s.last_state

\* Duration measured from the poll time back to itself
Duration_Reversed(timestamp, entered_at) == entered_at - timestamp

\* fast_poller.py:153, 383  timestamp - self.state_entered_at
Duration(timestamp, entered_at) == timestamp - entered_at

\* fast_poller.py:151-184  "Check for state change"
CheckStateChange(s, current_state, current_seq, timestamp, fault) ==
    IF StateChanged(s, current_state) THEN
        IF s.state_entered_at = NoneNum
        THEN Raise(s, "TypeError")      \* timestamp - None
        ELSE IF fault = "write_state_transition"
        THEN Raise(s, "StorageError")
        ELSE
            LET duration == Duration(timestamp, s.state_entered_at)
                s1 == write_state_transition(s, timestamp, s.last_state,
                                             current_state, duration,
                                             current_seq)
                s2 == [s1 EXCEPT !.state_changes = @ + 1]
                s3 == Alert(s2, Severity(s.last_state, current_state),
                            s.last_state, current_state)
                s4 == [s3 EXCEPT !.alerts_sent = @ + 1]
            IN  [s4 EXCEPT !.state_entered_at = timestamp]
    ELSE IF s.last_state = None
    THEN [s EXCEPT !.state_entered_at = timestamp]
    ELSE s

\* fast_poller.py:203-205  prune the seen-set after inserting seq
Prune(s, seq) ==
    IF Cardinality(s.checked_ledgers) > SeenLimit THEN
        LET oldest == Smallest(s.checked_ledgers, EvictCount)
        IN  [s EXCEPT !.checked_ledgers = @ \ oldest,
                      !.log = Append(@, EvictEntry(seq, s.checked_ledgers,
                                                   oldest))]
    ELSE s

\* LedgerRange starting after the tracked sequence
LedgerRange_Open(last_seq, current_seq) == Range(last_seq + 1, current_seq)

\* LedgerRange that always holds the tracked sequence
LedgerRange_AtLeastOne(last_seq, current_seq) ==
    Range(last_seq, current_seq) \cup {last_seq}

\* fast_poller.py:188  the sequences the loop walks through
LedgerRange(last_seq, current_seq) == Range(last_seq, current_seq)

\* NotYetChecked without the look-up in the seen-set
NotYetChecked_NoSeenSet(s, seq) == seq > 0

\* fast_poller.py:189  if seq not in self.checked_ledgers and seq > 0
NotYetChecked(s, seq) == seq \notin s.checked_ledgers /\ seq > 0

\* ServerStateAtCheck reading the snapshot of the current poll
ServerStateAtCheck_Current(s, current_state) == current_state

\* fast_poller.py:192  server_state=self.last_state or current_state
ServerStateAtCheck(s, current_state) ==
    IF s.last_state /= None THEN s.last_state ELSE current_state

\* fast_poller.py:188-205  the loop body for seq, then the rest of the loop
RECURSIVE ValidationLoop(_, _, _, _, _, _, _)
ValidationLoop(s, seq, current_state, current_seq, timestamp, fault, fail_at) ==
    IF seq \notin LedgerRange(s.last_ledger_seq, current_seq) THEN s
    ELSE IF NotYetChecked(s, seq) THEN
        LET server_state == ServerStateAtCheck(s, current_state)
            fails == fault = "write_ledger_validation"
                     /\ Len(Evaluated(s.log)) + 1 = fail_at
            s1 == check_ledger_validation(s, timestamp, seq, server_state,
                                          fails)
            s2 == [s1 EXCEPT !.checked_ledgers = @ \cup {seq},
                             !.log = Append(@, CheckEntry(seq,
                                                     s.checked_ledgers)),
                             !.validations_checked = @ + 1]
        IN  IF s1.raised /= "none" THEN [s1 EXCEPT !.failed_seq = seq]
            ELSE ValidationLoop(Prune(s2, seq), seq + 1, current_state,
                                current_seq, timestamp, fault, fail_at)
    ELSE ValidationLoop(s, seq + 1, current_state, current_seq, timestamp,
                        fault, fail_at)

\* fast_poller.py:186-205  "Check validations"
CheckValidations(s, current_state, current_seq, timestamp, fault, fail_at) ==
    IF Truthy(s.last_ledger_seq)
    THEN ValidationLoop(s, s.last_ledger_seq, current_state, current_seq,
                        timestamp, fault, fail_at)
    ELSE s

\* fast_poller.py:214  time_in_state, as exported and printed by the poll
TimeInState(entered_at, timestamp) ==
    IF Truthy(entered_at) THEN timestamp - entered_at ELSE 0

\* fast_poller.py:285-292  "Write to database"
WriteMetrics(s, current_state, current_seq, timestamp, fault) ==
    IF fault = "write_metrics" THEN Raise(s, "StorageError")
    ELSE write_metrics(s, timestamp, current_state, current_seq)

\* fast_poller.py:294-297  "Update tracking"
UpdateTracking(s, current_state, current_seq, timestamp) ==
    [s EXCEPT !.last_state = current_state,
              !.last_ledger_seq = current_seq,
              !.last_ledger_time = timestamp]

\* ResetErrors keeping the count
ResetErrors_Kept(s) == s

\* fast_poller.py:87  self.consecutive_errors = 0
ResetErrors(s) == [s EXCEPT !.consecutive_errors = 0]

\* fast_poller.py:83-302  the try block of poll() after a successful status
\* fetch; an exception ends the block where it is raised and is only
\* printed by _handle_unexpected_error
PollBody(current_state, current_seq, fault, fail_at) ==
    LET timestamp == now
        s0 == SecondaryFetches(ResetErrors(Self), fault)
        s1 == [s0 EXCEPT !.poll_count = @ + 1]
        s2 == CheckStateChange(s1, current_state, current_seq, timestamp, fault)
        s3 == IF s2.raised /= "none" THEN s2
              ELSE CheckValidations(s2, current_state, current_seq, timestamp,
                                    fault, fail_at)
        s4 == IF s3.raised /= "none" THEN s3
              ELSE WriteMetrics(s3, current_state, current_seq, timestamp, fault)
    IN  IF s4.raised /= "none" THEN s4
        ELSE UpdateTracking(s4, current_state, current_seq, timestamp)

\* Escalates without the guard on a state that is already unreachable
Escalates_FromUnreachable(s) == s.last_state /= None

\* fast_poller.py:382  if self.last_state and self.last_state != 'unreachable'
Escalates(s) == s.last_state /= None /\ s.last_state /= "unreachable"

\* WithinThreshold that stops one failure early
WithinThreshold_Strict(s) == s.consecutive_errors < max_errors_before_alert

\* fast_poller.py:380  elif self.consecutive_errors <= self.max_errors_before_alert
WithinThreshold(s) == s.consecutive_errors <= max_errors_before_alert

\* fast_poller.py:364-417  _handle_api_error; an exception raised here is
\* raised inside poll()'s except clause and leaves poll()
HandleApiError(fault) ==
    LET timestamp == now
        s0 == [Self EXCEPT !.consecutive_errors = @ + 1, !.api_errors = @ + 1]
        current_state == "unreachable"
    IN  IF s0.consecutive_errors = 1 THEN s0
        ELSE IF WithinThreshold(s0) THEN s0
        ELSE
            LET s1 ==
                  IF Escalates(s0) THEN
                      IF fault = "write_state_transition"
                      THEN Raise(s0, "StorageError")
                      ELSE
                        LET duration ==
                              IF Truthy(s0.state_entered_at)
                              THEN Duration(timestamp, s0.state_entered_at)
                              ELSE 0
                            ledger_seq ==
                              IF Truthy(s0.last_ledger_seq)
                              THEN s0.last_ledger_seq ELSE 0
                            a == write_state_transition(
                                     s0, timestamp, s0.last_state,
                                     current_state, duration, ledger_seq)
                            b == [a EXCEPT !.state_changes = @ + 1]
                            c == Alert(b, "CRITICAL", s0.last_state,
                                       current_state)
                            d == [c EXCEPT !.alerts_sent = @ + 1]
                        IN  [d EXCEPT !.state_entered_at = timestamp]
                  ELSE s0
            IN  IF s1.raised /= "none" THEN s1
                ELSE [s1 EXCEPT !.last_state = "unreachable"]

(***************************************************************************)
(* The actions: one iteration of run()'s loop, poll() then sleep.          *)
(***************************************************************************)
\* the poller's fields and the stores after the poll that ended in s
Commit(s) ==
    /\ last_state' = s.last_state
    /\ state_entered_at' = s.state_entered_at
    /\ last_ledger_seq' = s.last_ledger_seq
    /\ last_ledger_time' = s.last_ledger_time
    /\ checked_ledgers' = s.checked_ledgers
    /\ consecutive_errors' = s.consecutive_errors
    /\ poll_count' = s.poll_count
    /\ state_changes' = s.state_changes
    /\ validations_checked' = s.validations_checked
    /\ alerts_sent' = s.alerts_sent
    /\ api_errors' = s.api_errors
    /\ state_transitions' = s.state_transitions
    /\ ledger_validations' = s.ledger_validations
    /\ validator_metrics' = s.validator_metrics
    /\ alerts' = s.alerts
    /\ checked_log' = checked_log \o s.log
    /\ now' = now + 1
    /\ UNCHANGED exporter_vars
    /\ UNCHANGED store_vars

\* no validation write is waiting to be made up for
NoPending == [old_seq |-> 0, seq |-> 0, failed_seq |-> 0, done |-> {},
              log_end |-> 0]

\* the first poll since the last one that ran to its end in which a
\* validation write failed: the gap it walked, the ledger that failed, the
\* ledgers it had evaluated and where its log ends
Pending ==
    IF last.kind \in {"init", "ok"} THEN NoPending
    ELSE IF last.pending = NoPending /\ last.failed_seq > 0
    THEN [old_seq |-> last.old_seq, seq |-> last.seq,
          failed_seq |-> last.failed_seq,
          done |-> {last.log[i].seq : i \in {j \in DOMAIN last.log :
                                                IsCheck(last.log[j])}},
          log_end |-> last.log_end]
    ELSE last.pending

\* the summary of a poll: what it was given, what it started from, and
\* what it did; pending is the failed validation write the poll found
\* waiting
Summary(kind, current_state, current_seq, s) ==
    [kind |-> kind, state |-> current_state, seq |-> current_seq,
     raised |-> s.raised,
     old_state |-> last_state, old_entered_at |-> state_entered_at,
     old_seq |-> last_ledger_seq, old_checked |-> checked_ledgers,
     old_errors |-> consecutive_errors,
     timestamp |-> now,
     records |-> Len(s.state_transitions) - Len(state_transitions),
     alerted |-> Len(s.alerts) - Len(alerts),
     log |-> s.log, swallowed |-> s.swallowed,
     failed_seq |-> s.failed_seq,
     log_end |-> Len(checked_log) + Len(s.log),
     pending |-> Pending]

\* run() is still in its while loop
CanPoll == running

\* the status fetch succeeds and no storage call raises
PollSuccess(current_state, current_seq) ==
    /\ CanPoll
    /\ LET s == PollBody(current_state, current_seq, "none", 0)
       IN  /\ s.raised = "none"
           /\ Commit(s)
           /\ last' = Summary("ok", current_state, current_seq, s)
           /\ outcomes' = Append(outcomes, "ok")
    /\ reported' = Append(reported, [state |-> current_state, seq |-> current_seq])
    /\ running' = running

\* the status fetch succeeds and poll() ends in _handle_unexpected_error:
\* the storage call named by fault raised, or the poll's own code did
PollUnexpectedError(current_state, current_seq, fault, fail_at) ==
    /\ CanPoll
    /\ LET s == PollBody(current_state, current_seq, fault, fail_at)
       IN  /\ s.raised = IF fault = "none" THEN "TypeError" ELSE "StorageError"
           /\ Commit(s)
           /\ last' = Summary("unexpected", current_state, current_seq, s)
           /\ outcomes' = Append(outcomes, "unexpected")
    /\ reported' = Append(reported, [state |-> current_state, seq |-> current_seq])
    /\ running' = running

\* the status fetch succeeds and the secondary fetch named by fault fails;
\* the poll goes on, to its end or to an exception of its own code
PollSecondaryFailure(current_state, current_seq, fault) ==
    /\ CanPoll
    /\ LET s == PollBody(current_state, current_seq, fault, 0)
           kind == IF s.raised = "none" THEN "ok" ELSE "unexpected"
       IN  /\ s.swallowed /= <<>>
           /\ Commit(s)
           /\ last' = Summary(kind, current_state, current_seq, s)
           /\ outcomes' = Append(outcomes, kind)
    /\ reported' = Append(reported, [state |-> current_state, seq |-> current_seq])
    /\ running' = running

\* the status fetch fails in the way named by failure, poll() catches
\* RippledAPIError and _handle_api_error returns
PollApiError(failure) ==
    /\ CanPoll
    /\ Call(failure) = "RippledAPIError"
    /\ LET s == HandleApiError("none")
       IN  /\ Commit(s)
           /\ last' = Summary("api_error", None, NoneNum, s)
           /\ outcomes' = Append(outcomes, "api_error")
    /\ UNCHANGED <<reported, running>>

\* the status fetch raises RippledAPIError and write_state_transition raises
\* inside _handle_api_error: the exception leaves poll() and run()
PollApiErrorStorageError(failure) ==
    /\ CanPoll
    /\ Call(failure) = "RippledAPIError"
    /\ LET s == HandleApiError("write_state_transition")
       IN  /\ s.raised = "StorageError"
           /\ Commit(s)
           /\ last' = Summary("api_error", None, NoneNum, s)
           /\ outcomes' = Append(outcomes, "api_error")
    /\ running' = FALSE
    /\ UNCHANGED reported

Init ==
    /\ last_state = None
    /\ state_entered_at = NoneNum
    /\ last_ledger_seq = NoneNum
    /\ last_ledger_time = NoneNum
    /\ checked_ledgers = {}
    /\ consecutive_errors = 0
    /\ poll_count = 0
    /\ state_changes = 0
    /\ validations_checked = 0
    /\ alerts_sent = 0
    /\ api_errors = 0
    /\ state_transitions = <<>>
    /\ ledger_validations = {}
    /\ validator_metrics = <<>>
    /\ alerts = <<>>
    /\ now = 1
    /\ running = TRUE
    /\ checked_log = <<>>
    /\ reported = <<>>
    /\ last = [kind |-> "init", state |-> None, seq |-> NoneNum,
               raised |-> "none", old_state |-> None,
               old_entered_at |-> NoneNum, old_seq |-> NoneNum,
               old_checked |-> {}, old_errors |-> 0, timestamp |-> 0,
               records |-> 0, alerted |-> 0, log |-> <<>>,
               swallowed |-> <<>>, failed_seq |-> 0, log_end |-> 0,
               pending |-> NoPending]
    /\ outcomes = <<>>
    /\ last_peer_disconnects = NoneNum
    /\ last_peer_disconnects_resources = NoneNum
    /\ last_jq_overflow = NoneNum
    /\ peer_disconnects = 0
    /\ peer_disconnects_resources = 0
    /\ jq_trans_overflow = 0
    /\ exporter_log = [total |-> <<>>, resources |-> <<>>, jq |-> <<>>]
    /\ stats = [hours |-> 0, at |-> 0, total_checked |-> 0,
                validated_count |-> 0, missed_count |-> 0,
                agreement_rate |-> [num |-> 0, den |-> 1]]
    /\ validation_stats = [hours |-> 0, at |-> 0, total_ledgers |-> 0,
                           expected_validations |-> 0,
                           actual_validations |-> 0, agreements |-> 0,
                           disagreements |-> 0, missed |-> 0,
                           agreement_rate |-> [num |-> 0, den |-> 1],
                           validation_rate |-> [num |-> 0, den |-> 1]]
    /\ store_log = <<>>

\* The state-machine runs: any reported state, a ledger that advances by one
\* per poll interval, and a failing transition or metrics write
NoFault == <<"none", 0>>
StateFaults == {<<"write_state_transition", 0>>, <<"write_metrics", 0>>}

Next ==
    \/ \E st \in ReportedStates : now <= MaxPolls /\ PollSuccess(st, now)
    \/ \E st \in ReportedStates, f \in StateFaults \cup {NoFault} :
          now <= MaxPolls /\ PollUnexpectedError(st, now, f[1], f[2])
    \/ \E st \in ReportedStates, f \in SecondaryFetchCalls :
          now <= MaxPolls /\ PollSecondaryFailure(st, now, f)
    \/ \E failure \in FetchFailures : now <= MaxPolls /\ PollApiError(failure)
    \/ \E failure \in FetchFailures :
          now <= MaxPolls /\ PollApiErrorStorageError(failure)

Spec == Init /\ [][Next]_vars

\* The ledger runs: one reported state, any reported sequence (gaps,
\* repeats, rollbacks, 0), and a failing validation or metrics write; the
\* secondary fetches succeed
GapState == "proposing"
GapFaults == {<<"write_ledger_validation", k>> : k \in 1..2} \cup
             {<<"write_metrics", 0>>}

NextGap ==
    \/ \E sq \in ReportedSeqs :
          now <= MaxGapPolls /\ PollSuccess(GapState, sq)
    \/ \E sq \in ReportedSeqs, f \in GapFaults :
          now <= MaxGapPolls /\ PollUnexpectedError(GapState, sq, f[1], f[2])
    \/ \E failure \in FetchFailures :
          now <= MaxGapPolls /\ PollApiError(failure)

SpecGap == Init /\ [][NextGap]_vars

(***************************************************************************)
(* PrometheusExporter: the reconciliation of cumulative upstream values    *)
(* into counters.  An attribute that does not exist yet is NoneNum.        *)
(***************************************************************************)
\* the cumulative values the upstream reports
Counts == 0..MaxCount

\* Increment that applies the difference whatever its sign
Increment_Signed(counter, inc) == counter + inc

\* prometheus_exporter.py:147-150, 170-171  if inc > 0: counter.inc(inc)
Increment(counter, inc) == IF inc > 0 THEN counter + inc ELSE counter

\* StoreLast keeping the highest value seen
StoreLast_HighWater(prev, new) == IF new > prev THEN new ELSE prev

\* prometheus_exporter.py:152-153, 172  self._last_... = the new value
StoreLast(prev, new) == new

\* one reconciliation, as the history keeps it: the value read as previous,
\* the value given, and the counter before and after
Reconciled(prev, new, before, after) ==
    [prev |-> prev, new |-> new, before |-> before, after |-> after]

\* the updates made so far
Updates == Len(exporter_log.total) + Len(exporter_log.jq)

\* PrometheusExporter.update_peer_disconnects
update_peer_disconnects(total, resources) ==
    LET fresh == last_peer_disconnects = NoneNum     \* not hasattr(...)
        prev_total == IF fresh THEN 0 ELSE last_peer_disconnects
        prev_resources == IF fresh THEN 0 ELSE last_peer_disconnects_resources
        total_inc == total - prev_total
        resources_inc == resources - prev_resources
    IN  /\ peer_disconnects' = Increment(peer_disconnects, total_inc)
        /\ peer_disconnects_resources' =
               Increment(peer_disconnects_resources, resources_inc)
        /\ last_peer_disconnects' = StoreLast(prev_total, total)
        /\ last_peer_disconnects_resources' =
               StoreLast(prev_resources, resources)
        /\ exporter_log' =
               [exporter_log EXCEPT
                  !.total = Append(@, Reconciled(prev_total, total,
                                peer_disconnects, peer_disconnects')),
                  !.resources = Append(@, Reconciled(prev_resources,
                                resources, peer_disconnects_resources,
                                peer_disconnects_resources'))]
        /\ UNCHANGED <<last_jq_overflow, jq_trans_overflow>>
        /\ UNCHANGED poller_vars
        /\ UNCHANGED store_vars

\* PrometheusExporter.update_jq_trans_overflow
update_jq_trans_overflow(count) ==
    LET prev == IF last_jq_overflow = NoneNum THEN 0 ELSE last_jq_overflow
        inc == count - prev
    IN  /\ jq_trans_overflow' = Increment(jq_trans_overflow, inc)
        /\ last_jq_overflow' = StoreLast(prev, count)
        /\ exporter_log' =
               [exporter_log EXCEPT
                  !.jq = Append(@, Reconciled(prev, count, jq_trans_overflow,
                                              jq_trans_overflow'))]
        /\ UNCHANGED <<last_peer_disconnects,
                       last_peer_disconnects_resources, peer_disconnects,
                       peer_disconnects_resources>>
        /\ UNCHANGED poller_vars
        /\ UNCHANGED store_vars

\* The exporter runs: any cumulative values, rising, falling or repeated,
\* given to the two methods in any order
NextExporter ==
    \/ \E total \in Counts, resources \in Counts :
          Updates < MaxUpdates /\ update_peer_disconnects(total, resources)
    \/ \E count \in Counts :
          Updates < MaxUpdates /\ update_jq_trans_overflow(count)

SpecExporter == Init /\ [][NextExporter]_vars

\* The recovery runs: MaxPrefix polls with any outcome, then SteadyPolls
\* polls whose status fetch succeeds and reports SteadyState and in which no
\* storage call fails.  run() calls poll() and sleeps in a 'while True'
\* loop (fast_poller.py:447-450), so the loop always takes its next
\* iteration: weak fairness of the loop's iteration, which is every step
\* of NextLive (each poll advances the clock, and some poll is possible
\* whenever the run is not over).
SteadyState == "full"
InPrefix == now <= MaxPrefix
InSteady == now > MaxPrefix /\ now <= MaxPrefix + SteadyPolls

NextLive ==
    \/ \E st \in ReportedStates : InPrefix /\ PollSuccess(st, now)
    \/ \E st \in ReportedStates, f \in StateFaults \cup {NoFault} :
          InPrefix /\ PollUnexpectedError(st, now, f[1], f[2])
    \/ \E failure \in FetchFailures : InPrefix /\ PollApiError(failure)
    \/ InSteady /\ PollSuccess(SteadyState, now)
    \/ InSteady /\ PollUnexpectedError(SteadyState, now, "none", 0)

\* One iteration of run()'s loop: a poll, then the sleep that advances time
Loop == now <= MaxPrefix + SteadyPolls /\ now' = now + 1

SpecLive == Init /\ [][NextLive]_vars /\ WF_now(Loop)

\* The runs on incomplete status responses: a response holds the state
\* 'full' or no state, and the ledger of the poll interval or no ledger;
\* no storage call and no secondary fetch fails
Responses(seq) ==
    {[server_state |-> st, validated_ledger |-> vl] :
         st \in {"full", Absent}, vl \in {seq, AbsentNum}}

NextDefaults ==
    \/ \E info \in Responses(now) :
          now <= MaxPolls
          /\ PollSuccess(ExtractState(info), ExtractSeq(info))
    \/ \E info \in Responses(now) :
          now <= MaxPolls
          /\ PollUnexpectedError(ExtractState(info), ExtractSeq(info),
                                 "none", 0)
    \/ \E failure \in FetchFailures : now <= MaxPolls /\ PollApiError(failure)

SpecDefaults == Init /\ [][NextDefaults]_vars

(***************************************************************************)
(* The validation store on its own: the tracker writes records, time       *)
(* passes, and the rolling statistics are queried.                         *)
(***************************************************************************)
\* the ledgers and states the tracker is called with, the time that passes
\* between two calls (a second, an hour, a day), and the windows poll()
\* asks for (fast_poller.py:270-271)
StoreSeqs == {1, 2}
StoreStates == {"proposing", "full"}
Delays == {1, SecondsPerHour, 24 * SecondsPerHour}
Windows == {1, 24}
StatsWindows == {24}

\* one entry of the store's history
StoreOp(op, seq, state, arg) ==
    [op |-> op, at |-> now, ledger_seq |-> seq, server_state |-> state,
     arg |-> arg]

\* everything the store's operations leave alone
store_frame == <<last_state, state_entered_at, last_ledger_seq,
                 last_ledger_time, checked_ledgers, consecutive_errors,
                 poll_count, state_changes, validations_checked, alerts_sent,
                 api_errors, state_transitions, validator_metrics, alerts,
                 running, checked_log, reported, last, outcomes>>

\* ValidationTracker.check_ledger_validation called for a ledger
StoreWrite(ledger_seq, server_state) ==
    /\ ledger_validations' =
           check_ledger_validation(Self, now, ledger_seq, server_state,
                                   FALSE).ledger_validations
    /\ store_log' = Append(store_log,
                           StoreOp("write", ledger_seq, server_state, 0))
    /\ UNCHANGED <<now, stats, validation_stats>>
    /\ UNCHANGED store_frame
    /\ UNCHANGED exporter_vars

\* Database.get_validation_stats_period(hours)
StoreQuery(hours) ==
    /\ stats' = [at |-> now] @@
                get_validation_stats_period(ledger_validations, now, hours)
    /\ store_log' = Append(store_log, StoreOp("query", 0, None, hours))
    /\ UNCHANGED <<now, ledger_validations, validation_stats>>
    /\ UNCHANGED store_frame
    /\ UNCHANGED exporter_vars

\* Database.get_validation_stats(hours), as poll() calls it
StoreQueryStats(hours) ==
    /\ validation_stats' = [at |-> now] @@
                           get_validation_stats(ledger_validations, now, hours)
    /\ store_log' = Append(store_log, StoreOp("stats", 0, None, hours))
    /\ UNCHANGED <<now, ledger_validations, stats>>
    /\ UNCHANGED store_frame
    /\ UNCHANGED exporter_vars

\* time passes
Elapse(delay) ==
    /\ now' = now + delay
    /\ store_log' = Append(store_log, StoreOp("elapse", 0, None, delay))
    /\ UNCHANGED <<ledger_validations, stats, validation_stats>>
    /\ UNCHANGED store_frame
    /\ UNCHANGED exporter_vars

NextStore ==
    \/ \E ledger_seq \in StoreSeqs, server_state \in StoreStates :
          Len(store_log) < MaxStoreOps /\ StoreWrite(ledger_seq, server_state)
    \/ \E hours \in Windows :
          Len(store_log) < MaxStoreOps /\ StoreQuery(hours)
    \/ \E hours \in StatsWindows :
          Len(store_log) < MaxStoreOps /\ StoreQueryStats(hours)
    \/ \E delay \in Delays :
          Len(store_log) < MaxStoreOps /\ Elapse(delay)

SpecStore == Init /\ [][NextStore]_vars

(***************************************************************************)
(* Vocabulary of the properties.                                           *)
(***************************************************************************)
\* the last poll fetched a snapshot (its status fetch succeeded)
Fetched == last.kind \in {"ok", "unexpected"}
\* the last poll fetched a snapshot and none of its storage calls failed
NoStorageFault == Fetched /\ last.raised /= "StorageError"
\* the last poll's status fetch failed and its handler returned
FailedPoll == last.kind = "api_error" /\ last.raised = "none"
\* no status fetch has failed and every poll so far ran to its end
CleanRun == api_errors = 0 /\ Len(validator_metrics) = Len(reported)

\* the (old_state, new_state) pairs of a table of records or alerts
Pairs(rows) ==
    [i \in 1..Len(rows) |-> <<rows[i].old_state, rows[i].new_state>>]

\* the changes in a sequence of reported snapshots: one pair for every
\* position i >= 2 whose state differs from the one before it
RECURSIVE Changes(_)
Changes(snaps) ==
    IF Len(snaps) < 2 THEN <<>>
    ELSE LET n == Len(snaps)
             init == Changes(SubSeq(snaps, 1, n - 1))
         IN  IF snaps[n].state /= snaps[n - 1].state
             THEN Append(init, <<snaps[n - 1].state, snaps[n].state>>)
             ELSE init

\* no row repeats the change of the row written just before it
NoRepeat(rows) ==
    \A i \in 1..(Len(rows) - 1) : Pairs(rows)[i] /= Pairs(rows)[i + 1]

(***************************************************************************)
(* C1.  Each change of the reported state relative to the tracked state    *)
(* is recorded once and alerted once, also when a later step of the poll   *)
(* fails: no transition record and no alert repeats the change of the one  *)
(* written just before it, and there are as many alerts as records.        *)
(***************************************************************************)
C1_TransitionRecordedOnce ==
    /\ NoRepeat(state_transitions)
    /\ NoRepeat(alerts)
    /\ Len(alerts) = Len(state_transitions)

(***************************************************************************)
(* C2.  The failed poll that brings the consecutive-failure count to       *)
(* max_errors_before_alert + 1, from any tracked state other than          *)
(* 'unreachable' (None included), writes one transition record into        *)
(* 'unreachable', sends one CRITICAL alert and sets the tracked state to   *)
(* 'unreachable'; every later consecutive failure writes and sends         *)
(* nothing.                                                                *)
(***************************************************************************)
C2_ThirdFailureEscalates ==
    /\ (FailedPoll /\ consecutive_errors = max_errors_before_alert + 1
            /\ last.old_state /= "unreachable")
        => /\ last.records = 1
           /\ state_transitions[Len(state_transitions)].new_state = "unreachable"
           /\ last.alerted = 1
           /\ alerts[Len(alerts)].level = "CRITICAL"
           /\ last_state = "unreachable"
    /\ (FailedPoll /\ consecutive_errors > max_errors_before_alert + 1)
        => last.records = 0 /\ last.alerted = 0

(***************************************************************************)
(* C3.  When the tracked state is 'unreachable', however it was reached,   *)
(* the next poll that fetches a snapshot with state s and meets no storage *)
(* failure writes the one record unreachable -> s, sends one alert and     *)
(* leaves the tracked state equal to s.                                    *)
(***************************************************************************)
C3_RecoveryFromUnreachable ==
    (NoStorageFault /\ last.old_state = "unreachable")
        => /\ last.records = 1
           /\ Pairs(state_transitions)[Len(state_transitions)]
                  = <<"unreachable", last.state>>
           /\ last.alerted = 1
           /\ last_state = last.state

(***************************************************************************)
(* C8.  A storage call that fails never ends the polling loop: run() is    *)
(* still looping after the poll in which the call failed.                  *)
(***************************************************************************)
C8_StorageFailureKeepsPolling ==
    last.raised = "StorageError" => running

(***************************************************************************)
(* C9.  In a run in which every poll and every storage call succeeds, the  *)
(* transition records are exactly the changes between consecutive reported *)
(* states, in order, and the alerts correspond to them one for one.        *)
(***************************************************************************)
C9_CleanRunRecordsChanges ==
    CleanRun => /\ Pairs(state_transitions) = Changes(reported)
                /\ Pairs(alerts) = Changes(reported)

\* syncing, syncing, full, proposing was fed and gave two records
C9_Witness ==
    /\ CleanRun
    /\ [i \in 1..Len(reported) |-> reported[i].state]
           = <<"syncing", "syncing", "full", "proposing">>
    /\ Pairs(state_transitions)
           = << <<"syncing", "full">>, <<"full", "proposing">> >>

(***************************************************************************)
(* C10.  A poll that fetches a snapshot while no state is tracked writes   *)
(* no transition record and sends no alert and sets entered_at to the poll *)
(* time; when it runs to its end the tracked state is the reported state.  *)
(***************************************************************************)
C10_FirstPollSilent ==
    (Fetched /\ last.old_state = None)
        => /\ last.records = 0
           /\ last.alerted = 0
           /\ state_entered_at = last.timestamp
           /\ last.kind = "ok" => last_state = last.state

\* the first poll of a run succeeded
C10_Witness ==
    /\ last.kind = "ok" /\ last.old_state = None
    /\ last_state = last.state /\ state_entered_at = last.timestamp
    /\ state_transitions = <<>> /\ alerts = <<>>

(***************************************************************************)
(* Vocabulary of the ledger properties.                                    *)
(***************************************************************************)
ToSet(q) == {q[i] : i \in DOMAIN q}
EachOnce(q) == \A i, j \in DOMAIN q : i /= j => q[i] /= q[j]
\* the sequences the last poll evaluated
LastChecks == Evaluated(last.log)
\* x was in the seen-set when the last poll's loop reached it: it was there
\* when the poll began and no pruning triggered by an earlier sequence of
\* the same poll removed it
SeenWhenReached(x) ==
    /\ x \in last.old_checked
    /\ ~ \E i \in DOMAIN last.log :
            /\ IsEvict(last.log[i])
            /\ last.log[i].seq < x
            /\ x \in last.log[i].oldest
\* the last poll ran to its end from a tracked sequence below the reported
GapPoll ==
    last.kind = "ok" /\ last.old_seq /= NoneNum /\ last.old_seq < last.seq
HasRecord(x) == \E r \in ledger_validations : r.ledger_seq = x
\* the reported sequences so far are positive and never decrease
Monotone ==
    \A i \in DOMAIN reported :
        /\ reported[i].seq > 0
        /\ i > 1 => reported[i - 1].seq <= reported[i].seq

C5_NoLedgerSkipped ==
    (Monotone /\ validator_metrics /= <<>>) =>
        \A x \in validator_metrics[1].ledger_seq..(last_ledger_seq - 1) :
            HasRecord(x)

\* three polls or more, the last one over a gap larger than 1, after a
\* pruning of the seen-set
C5_Witness ==
    /\ Monotone
    /\ Len(validator_metrics) >= 3
    /\ GapPoll /\ last.seq - last.old_seq > 1
    /\ \E i \in DOMAIN checked_log : IsEvict(checked_log[i])
    /\ \A x \in validator_metrics[1].ledger_seq..(last_ledger_seq - 1) :
           HasRecord(x)

(***************************************************************************)
(* C6, as claimed.  Over any sequence of polls no ledger sequence is       *)
(* evaluated, and counted in validations_checked, twice.  Stated here for  *)
(* the runs in which no poll fails, so that only rollbacks produce         *)
(* overlapping ranges.                                                     *)
(***************************************************************************)
C6_EvaluatedAtMostOnce ==
    CleanRun =>
        /\ EachOnce(Evaluated(checked_log))
        /\ validations_checked = Cardinality(ToSet(Evaluated(checked_log)))

(***************************************************************************)
(* C6, amended.  A ledger sequence is evaluated a second time only after   *)
(* it was evicted from the seen-set: between two evaluations of the same   *)
(* sequence lies a pruning that removed it.  validations_checked counts    *)
(* the evaluations.                                                        *)
(***************************************************************************)
C6_ReevaluatedOnlyAfterEviction ==
    /\ \A i, j \in DOMAIN checked_log :
         (/\ i < j
          /\ IsCheck(checked_log[i]) /\ IsCheck(checked_log[j])
          /\ checked_log[i].seq = checked_log[j].seq)
         => \E k \in (i + 1)..(j - 1) :
                /\ IsEvict(checked_log[k])
                /\ checked_log[i].seq \in checked_log[k].oldest
    /\ validations_checked = Len(Evaluated(checked_log))

\* after a rollback, one poll skipped a sequence still in the seen-set and
\* evaluated again one that had been evicted
C6_Witness ==
    /\ GapPoll
    /\ \E x \in last.old_seq..(last.seq - 1) : SeenWhenReached(x)
    /\ \E x \in ToSet(LastChecks) :
         \E i \in 1..(Len(checked_log) - Len(last.log)) :
             IsCheck(checked_log[i]) /\ checked_log[i].seq = x

(***************************************************************************)
(* C7.  After every poll the seen-set holds at most SeenLimit members.  A  *)
(* pruning happens exactly when an insertion makes the set larger than     *)
(* SeenLimit; it removes exactly the EvictCount smallest members, and      *)
(* every member that stays is larger than every member removed.            *)
(***************************************************************************)
C7_SeenSetBounded ==
    /\ Cardinality(checked_ledgers) <= SeenLimit
    /\ \A i \in DOMAIN checked_log :
         LET e == checked_log[i] IN
         /\ IsEvict(e) =>
              /\ i > 1 /\ IsCheck(checked_log[i - 1])
              /\ e.seen = checked_log[i - 1].seen \cup {checked_log[i - 1].seq}
              /\ Cardinality(e.seen) > SeenLimit
              /\ e.oldest \subseteq e.seen
              /\ Cardinality(e.oldest) = EvictCount
              /\ \A o \in e.oldest : \A r \in e.seen \ e.oldest : o < r
         /\ (IsCheck(e) /\ Cardinality(e.seen \cup {e.seq}) > SeenLimit) =>
              i < Len(checked_log) /\ IsEvict(checked_log[i + 1])

\* a pruning happened and the seen-set was filled again to its limit
C7_Witness ==
    /\ Cardinality(checked_ledgers) = SeenLimit
    /\ \E i \in DOMAIN checked_log :
         /\ IsEvict(checked_log[i])
         /\ checked_log[i].seen \ checked_log[i].oldest /= {}

(***************************************************************************)
(* Vocabulary of the failure-count properties.                             *)
(***************************************************************************)
\* the number of polls at the end of the run whose status fetch failed
RECURSIVE TrailingFailures(_)
TrailingFailures(q) ==
    IF q = <<>> \/ q[Len(q)] /= "api_error" THEN 0
    ELSE 1 + TrailingFailures(SubSeq(q, 1, Len(q) - 1))
\* the number of polls so far whose status fetch failed
FailureCount(q) == Cardinality({i \in DOMAIN q : q[i] = "api_error"})
\* the last poll moved the tracked state to 'unreachable'
Escalated == last_state = "unreachable" /\ last.old_state /= "unreachable"
\* a failed fetch and a successful one
F == "api_error"
S == {"ok", "unexpected"}

(***************************************************************************)
(* C11.  A failed poll that brings the consecutive-failure count to 1 or   *)
(* to any value up to max_errors_before_alert sends no alert, writes no    *)
(* transition record and leaves the tracked state and entered_at as they   *)
(* were.                                                                   *)
(***************************************************************************)
C11_FailureBelowThresholdIsSilent ==
    (last.kind = "api_error"
        /\ consecutive_errors \in 1..max_errors_before_alert)
        => /\ last.alerted = 0
           /\ last.records = 0
           /\ last.raised = "none"
           /\ last_state = last.old_state
           /\ state_entered_at = last.old_entered_at

\* the second failure in a row after a state was tracked
C11_Witness ==
    /\ last.kind = "api_error"
    /\ consecutive_errors = max_errors_before_alert
    /\ last.old_state \in ReportedStates
    /\ last_state = last.old_state
    /\ state_entered_at = last.old_entered_at

(***************************************************************************)
(* C12.  The consecutive-failure count is the number of failed polls since *)
(* the last poll whose status fetch succeeded (0 right after such a poll), *)
(* so the tracked state moves to 'unreachable' only in a failed poll that  *)
(* follows more than max_errors_before_alert failed polls in a row; a run  *)
(* fail, fail, success, fail, fail never escalates.                        *)
(***************************************************************************)
C12_CountResetBySuccess ==
    /\ consecutive_errors = TrailingFailures(outcomes)
    /\ Fetched => consecutive_errors = 0
    /\ Escalated => TrailingFailures(outcomes) > max_errors_before_alert
    /\ (/\ Len(outcomes) = 5
        /\ outcomes[1] = F /\ outcomes[2] = F /\ outcomes[3] \in S
        /\ outcomes[4] = F /\ outcomes[5] = F)
        => /\ last_state /= "unreachable"
           /\ \A i \in DOMAIN state_transitions :
                  state_transitions[i].new_state /= "unreachable"

\* fail, fail, success, fail, fail was run
C12_Witness ==
    /\ outcomes = <<F, F, "ok", F, F>>
    /\ consecutive_errors = 2
    /\ last_state \in ReportedStates

(***************************************************************************)
(* C13.  Every validation record written during a poll carries the state   *)
(* tracked at the start of that poll (the state of the previous poll, or   *)
(* 'unreachable' after an escalation), also when the poll reports another  *)
(* state, and every record has was_proposing = should_validate =           *)
(* did_validate = agreed = (server_state = 'proposing').                   *)
(***************************************************************************)
C13_RecordCarriesTrackedState ==
    \A r \in ledger_validations :
        /\ (Fetched /\ r.timestamp = last.timestamp)
               => r.server_state = last.old_state
        /\ r.was_proposing = (r.server_state = "proposing")
        /\ r.should_validate = r.was_proposing
        /\ r.did_validate = r.was_proposing
        /\ r.agreed = r.was_proposing

\* a poll that reported another state than the tracked one wrote a record,
\* and the table holds a record made while proposing and one made while not
C13_Witness ==
    /\ \E r \in ledger_validations :
         /\ r.timestamp = last.timestamp
         /\ r.server_state = last.old_state
         /\ r.server_state /= last.state
    /\ \E r \in ledger_validations : r.was_proposing /\ r.agreed
    /\ \E r \in ledger_validations : ~r.was_proposing /\ ~r.agreed

(***************************************************************************)
(* C14.  A poll that fetches a ledger sequence lower than the tracked one  *)
(* evaluates no ledger and raises and counts no error of its own: the      *)
(* failure count is 0, api_errors counts the failed fetches only, and      *)
(* unless a storage call fails the poll runs to its end, writes its        *)
(* metrics row and tracks the reported sequence.                           *)
(***************************************************************************)
Rollback == Fetched /\ last.old_seq /= NoneNum /\ last.seq < last.old_seq

C14_RollbackEvaluatesNothing ==
    /\ api_errors = FailureCount(outcomes)
    /\ Rollback =>
        /\ LastChecks = <<>>
        /\ consecutive_errors = 0
        /\ last.raised \in {"none", "StorageError"}
        /\ last.raised = "none" =>
              /\ last.kind = "ok"
              /\ validator_metrics /= <<>>
              /\ validator_metrics[Len(validator_metrics)] =
                     [timestamp |-> last.timestamp, server_state |-> last.state,
                      ledger_seq |-> last.seq]
              /\ last_ledger_seq = last.seq
              /\ last_state = last.state

\* a poll rolled back over ledgers that had not been evaluated yet
C14_Witness ==
    /\ Rollback /\ last.kind = "ok"
    /\ last.seq > 0
    /\ last.old_seq \notin last.old_checked
    /\ last_ledger_seq = last.seq
    /\ api_errors > 0

(***************************************************************************)
(* Vocabulary of the exporter properties.                                  *)
(***************************************************************************)
\* max(0, d)
Positive(d) == IF d > 0 THEN d ELSE 0
\* the three reconciled counters: the log, the counter, the stored value
Reconcilers ==
    { <<exporter_log.total, peer_disconnects, last_peer_disconnects>>,
      <<exporter_log.resources, peer_disconnects_resources,
        last_peer_disconnects_resources>>,
      <<exporter_log.jq, jq_trans_overflow, last_jq_overflow>> }
\* the cumulative values a log shows as observed, in order
Observed(log) == [i \in 1..Len(log) |-> log[i].new]
\* the sum of the positive differences between consecutive observations,
\* the first one taken against the baseline 0
RECURSIVE SumOfRises(_)
SumOfRises(obs) ==
    IF obs = <<>> THEN 0
    ELSE LET n == Len(obs)
             before == IF n = 1 THEN 0 ELSE obs[n - 1]
         IN  SumOfRises(SubSeq(obs, 1, n - 1)) + Positive(obs[n] - before)
NeverFalls(obs) == \A i \in 1..(Len(obs) - 1) : obs[i] <= obs[i + 1]

(***************************************************************************)
(* C15.  For each of the three cumulative upstream counters and all values *)
(* prev, new >= 0, one update adds max(0, new - prev) to the exported      *)
(* counter, which is 0 when new < prev, and stores new as the next prev.   *)
(***************************************************************************)
C15_UpdateAddsPositiveDelta ==
    \A rc \in Reconcilers :
        LET log == rc[1]  stored == rc[3] IN
        /\ \A i \in DOMAIN log :
             /\ log[i].prev >= 0 /\ log[i].new >= 0
             /\ log[i].after - log[i].before
                    = Positive(log[i].new - log[i].prev)
             /\ log[i].new < log[i].prev => log[i].after = log[i].before
             /\ i < Len(log) => log[i + 1].prev = log[i].new
        /\ log /= <<>> => stored = log[Len(log)].new

\* the upstream fell to a positive value and the counter stood still, and
\* it rose from a positive value and the counter followed
C15_Witness ==
    \E rc \in Reconcilers :
        LET log == rc[1] IN
        /\ \E i \in DOMAIN log :
             /\ log[i].new < log[i].prev /\ log[i].new > 0
             /\ log[i].after = log[i].before
        /\ \E i \in DOMAIN log :
             /\ log[i].prev > 0 /\ log[i].new > log[i].prev
             /\ log[i].after = log[i].before + (log[i].new - log[i].prev)
        /\ rc[3] = log[Len(log)].new

(***************************************************************************)
(* C16.  Over any sequence of observed cumulative values the exported      *)
(* counter never decreases, changes only by the updates, and equals the    *)
(* sum of the positive differences between consecutive observations from   *)
(* the baseline 0; when the observed values never fall it equals the       *)
(* latest observed value.                                                  *)
(***************************************************************************)
C16_CounterIsSumOfRises ==
    \A rc \in Reconcilers :
        LET log == rc[1]  counter == rc[2] IN
        /\ \A i \in DOMAIN log :
             /\ log[i].before <= log[i].after
             /\ log[i].before = IF i = 1 THEN 0 ELSE log[i - 1].after
        /\ counter = IF log = <<>> THEN 0 ELSE log[Len(log)].after
        /\ counter = SumOfRises(Observed(log))
        /\ (log /= <<>> /\ NeverFalls(Observed(log)))
               => counter = log[Len(log)].new

\* one counter saw a fall and a later rise, another saw values that never
\* fell and rose twice
C16_Witness ==
    /\ Observed(exporter_log.jq) = <<1, 0, 2>>
    /\ jq_trans_overflow = 3
    /\ \E rc \in Reconcilers :
         /\ Len(rc[1]) >= 1
         /\ NeverFalls(Observed(rc[1]))
         /\ rc[2] = MaxCount

(***************************************************************************)
(* Vocabulary of the session properties.                                   *)
(***************************************************************************)
\* the states rippled reports, the poller's default for a missing state,
\* and the poller's own 'unreachable'
AllStates == {"disconnected", "connected", "syncing", "tracking", "full",
              "validating", "proposing", "unknown", "unreachable"}
\* the severity the new state calls for
SeverityOf(new_state) ==
    CASE new_state \in {"disconnected", "syncing"} -> "CRITICAL"
      [] new_state = "tracking" -> "WARNING"
      [] new_state = "proposing" -> "INFO"
      [] OTHER -> "WARNING"
\* the alerts sent through Alerter.state_change: those of reported changes
StateChangeAlerts == SelectSeq(alerts, LAMBDA a : a.new_state /= "unreachable")
\* the record the last poll wrote
LastRecord == state_transitions[Len(state_transitions)]

(***************************************************************************)
(* C17.  The severity of a state-change alert is a function of the new     *)
(* state only: disconnected or syncing gives CRITICAL, tracking WARNING,   *)
(* proposing INFO and every other state WARNING, whatever the old state.   *)
(***************************************************************************)
C17_SeverityFromNewState ==
    /\ \A old_state \in AllStates, new_state \in AllStates :
           Severity(old_state, new_state) = SeverityOf(new_state)
    /\ \A i \in DOMAIN StateChangeAlerts :
           StateChangeAlerts[i].level = SeverityOf(StateChangeAlerts[i].new_state)

\* two alerts into the same state from different states carry the same
\* level, and alerts of the three levels were sent
C17_Witness ==
    /\ \E i, j \in DOMAIN StateChangeAlerts :
         /\ StateChangeAlerts[i].new_state = StateChangeAlerts[j].new_state
         /\ StateChangeAlerts[i].old_state /= StateChangeAlerts[j].old_state
         /\ StateChangeAlerts[i].level = StateChangeAlerts[j].level
    /\ {StateChangeAlerts[i].level : i \in DOMAIN StateChangeAlerts}
           = {"CRITICAL", "WARNING", "INFO"}

(***************************************************************************)
(* C18.  With a clock that never goes back, state_entered_at never         *)
(* decreases, and every transition record, of a reported change or of an   *)
(* escalation, has a duration_in_old_state >= 0 that is the record's       *)
(* timestamp minus the entered_at held when the poll began.                *)
(***************************************************************************)
C18_DurationFromEnteredAt ==
    /\ last.old_entered_at /= NoneNum =>
           /\ state_entered_at /= NoneNum
           /\ state_entered_at >= last.old_entered_at
    /\ \A i \in DOMAIN state_transitions :
           state_transitions[i].duration_in_old_state >= 0
    /\ last.records = 1 =>
           /\ LastRecord.timestamp = last.timestamp
           /\ LastRecord.duration_in_old_state
                  = LastRecord.timestamp - last.old_entered_at

\* an escalation was recorded after a reported change, each with the time
\* spent in the state that was left
C18_Witness ==
    /\ last.kind = "api_error" /\ last.records = 1
    /\ LastRecord.new_state = "unreachable"
    /\ LastRecord.duration_in_old_state = 3
    /\ Len(state_transitions) = 2
    /\ state_transitions[1].duration_in_old_state = 1
    /\ state_entered_at = last.timestamp

(***************************************************************************)
(* C19.  The pair (tracked state, entered_at) is replaced as a unit: after *)
(* no poll has entered_at been advanced for a recorded transition while    *)
(* the tracked state still holds the state that was left.                  *)
(***************************************************************************)
C19_SessionReplacedAsUnit ==
    (last.records = 1 /\ state_entered_at = last.timestamp)
        => last_state /= last.old_state

(***************************************************************************)
(* C20.  A poll that fetches the state already tracked writes no           *)
(* transition record, sends no alert and leaves entered_at unchanged; the  *)
(* counters state_changes and alerts_sent count the records and the alerts *)
(* and so stay as they were.  The time in state the poll reports is the    *)
(* poll time minus entered_at, which is positive and grows with the clock. *)
(***************************************************************************)
C20_SameStateChangesNothing ==
    /\ state_changes = Len(state_transitions)
    /\ alerts_sent = Len(alerts)
    /\ (Fetched /\ last.state = last.old_state) =>
        /\ last.records = 0
        /\ last.alerted = 0
        /\ state_entered_at = last.old_entered_at
        /\ TimeInState(state_entered_at, last.timestamp)
               = last.timestamp - last.old_entered_at
        /\ TimeInState(state_entered_at, last.timestamp) >= 1

\* the third poll in a row in the same state, after a recorded change
C20_Witness ==
    /\ last.kind = "ok" /\ last.state = last.old_state
    /\ last.records = 0 /\ last.alerted = 0
    /\ state_changes = 1 /\ alerts_sent = 1
    /\ state_entered_at = last.old_entered_at
    /\ TimeInState(state_entered_at, last.timestamp) = 2

(***************************************************************************)
(* Vocabulary of the store properties.                                     *)
(***************************************************************************)
\* the last operation on the store was a statistics query, so that stats
\* is the answer for the rows now stored
JustQueried == store_log /= <<>> /\ store_log[Len(store_log)].op = "query"
\* the records that lie in the window of the last query
QueriedWindow ==
    {r \in ledger_validations :
         r.timestamp >= stats.at - stats.hours * SecondsPerHour}
\* the writes made so far for a ledger, as positions in the history
WritesOf(x) ==
    {i \in DOMAIN store_log :
         store_log[i].op = "write" /\ store_log[i].ledger_seq = x}
LatestWriteOf(x) ==
    store_log[CHOOSE i \in WritesOf(x) : \A j \in WritesOf(x) : j <= i]
RecordsOf(x) == {r \in ledger_validations : r.ledger_seq = x}

(***************************************************************************)
(* C21.  get_validation_stats_period returns agreement_rate =              *)
(* validated_count / total_checked * 100 when a record lies in the window  *)
(* and returns 0, dividing nothing, when none does; when every record in   *)
(* the window has agreed = true the rate is 100; validated_count never     *)
(* exceeds total_checked.                                                  *)
(***************************************************************************)
C21_AgreementRate ==
    JustQueried =>
        /\ QueriedWindow /= {} =>
              /\ stats.total_checked > 0
              /\ stats.agreement_rate.den = stats.total_checked
              /\ stats.agreement_rate.num = stats.validated_count * 100
        /\ QueriedWindow = {} =>
              /\ stats.total_checked = 0
              /\ stats.agreement_rate = [num |-> 0, den |-> 1]
        /\ (QueriedWindow /= {} /\ \A r \in QueriedWindow : r.agreed) =>
              stats.agreement_rate.num = 100 * stats.agreement_rate.den
        /\ stats.validated_count <= stats.total_checked

\* a query found two records in its window, both agreed, and one outside
C21_Witness ==
    /\ JustQueried
    /\ Cardinality(QueriedWindow) = 2
    /\ \A r \in QueriedWindow : r.agreed
    /\ stats.agreement_rate = [num |-> 200, den |-> 2]
    /\ Len(store_log) >= 4

(***************************************************************************)
(* C22.  After any sequence of write_ledger_validation calls the store     *)
(* holds one record for every ledger_seq written and no more, and the      *)
(* record's fields are those of the latest write for that sequence.        *)
(***************************************************************************)
C22_UpsertKeepsLatest ==
    \A x \in StoreSeqs :
        IF WritesOf(x) = {} THEN RecordsOf(x) = {}
        ELSE LET w == LatestWriteOf(x)
                 proposing == (w.server_state = "proposing")
             IN  RecordsOf(x) =
                     {[timestamp |-> w.at, ledger_seq |-> x,
                       server_state |-> w.server_state,
                       was_proposing |-> proposing,
                       should_validate |-> proposing,
                       did_validate |-> proposing, agreed |-> proposing]}

\* a ledger was written twice, at different times and in different states
C22_Witness ==
    \E i, j \in WritesOf(1) :
        /\ i < j
        /\ store_log[i].at < store_log[j].at
        /\ store_log[i].server_state /= store_log[j].server_state
        /\ LatestWriteOf(1) = store_log[j]
        /\ Cardinality(RecordsOf(1)) = 1
        /\ \A r \in RecordsOf(1) : r.server_state = store_log[j].server_state

(***************************************************************************)
(* C25.  The statistics for a window of w hours count exactly the records  *)
(* with timestamp >= now - w * 3600, the boundary included; at any         *)
(* instant the 1-hour total_checked and validated_count do not exceed the  *)
(* 24-hour ones.                                                           *)
(***************************************************************************)
C25_WindowInclusive ==
    /\ JustQueried =>
          /\ stats.total_checked = Cardinality(QueriedWindow)
          /\ stats.validated_count =
                 Cardinality({r \in QueriedWindow : r.did_validate /\ r.agreed})
    /\ LET h1 == get_validation_stats_period(ledger_validations, now, 1)
           h24 == get_validation_stats_period(ledger_validations, now, 24)
       IN  /\ h1.total_checked <= h24.total_checked
           /\ h1.validated_count <= h24.validated_count

\* a 1-hour query counted a record lying exactly on its cutoff and left out
\* an older one that the 24-hour window holds
C25_Witness ==
    /\ JustQueried /\ stats.hours = 1
    /\ \E r \in QueriedWindow : r.timestamp = stats.at - SecondsPerHour
    /\ stats.total_checked = 1
    /\ get_validation_stats_period(ledger_validations, now, 24).total_checked = 2

(***************************************************************************)
(* Vocabulary of the error-handling properties.                            *)
(***************************************************************************)
\* the number of polls so far whose status fetch succeeded
FetchCount(q) == Cardinality({i \in DOMAIN q : q[i] \in S})
\* the last poll wrote its metrics row
WroteMetrics ==
    /\ validator_metrics /= <<>>
    /\ validator_metrics[Len(validator_metrics)] =
           [timestamp |-> last.timestamp, server_state |-> last.state,
            ledger_seq |-> last.seq]
\* the last poll ran to its end and tracks what it fetched
RanToEnd ==
    /\ last.kind = "ok" /\ last.raised = "none"
    /\ WroteMetrics
    /\ last_state = last.state
    /\ last_ledger_seq = last.seq

(***************************************************************************)
(* C23.  A poll whose status fetch succeeds and in which the peer-details  *)
(* fetch, the database-size probe or the fee fetch fails still runs to its *)
(* end: it writes its metrics row and tracks the reported state and        *)
(* sequence; the failure counts neither in api_errors nor in the           *)
(* consecutive-failure count.                                              *)
(***************************************************************************)
C23_SecondaryFailureTolerated ==
    (Fetched /\ last.swallowed /= <<>>) =>
        /\ RanToEnd
        /\ consecutive_errors = 0
        /\ api_errors = FailureCount(outcomes)

(***************************************************************************)
(* C24.  A failed status fetch of any kind adds exactly one to api_errors  *)
(* and to the consecutive-failure count and leaves poll_count, the tracked *)
(* ledger sequence, the seen-set and validations_checked as they were.     *)
(***************************************************************************)
C24_FailedFetchCountsOnce ==
    /\ \A failure \in FetchFailures : Call(failure) = "RippledAPIError"
    /\ api_errors = FailureCount(outcomes)
    /\ poll_count = FetchCount(outcomes)
    /\ validations_checked = Len(Evaluated(checked_log))
    /\ last.kind = "api_error" =>
          /\ consecutive_errors = last.old_errors + 1
          /\ last_ledger_seq = last.old_seq
          /\ checked_ledgers = last.old_checked
          /\ last.log = <<>>

\* a fetch failed after ledgers had been evaluated
C24_Witness ==
    /\ last.kind = "api_error"
    /\ consecutive_errors = 1 /\ api_errors = 2
    /\ poll_count = 2 /\ validations_checked > 0
    /\ checked_ledgers /= {} /\ checked_ledgers = last.old_checked
    /\ last_ledger_seq = last.old_seq /\ last_ledger_seq > 0

(***************************************************************************)
(* C26.  A status response that lacks server_state or validated_ledger is  *)
(* read as state 'unknown' and sequence 0 and is processed as a successful *)
(* poll: it is not counted as an error, and at the end of the poll the     *)
(* tracked state and sequence are the values read.                         *)
(***************************************************************************)
C26_MissingFieldsDefault ==
    /\ \A info \in Responses(1) :
          /\ info.server_state = Absent => ExtractState(info) = "unknown"
          /\ info.validated_ledger = AbsentNum => ExtractSeq(info) = 0
    /\ (Fetched /\ (last.state = "unknown" \/ last.seq = 0)) =>
          /\ RanToEnd
          /\ consecutive_errors = 0
          /\ api_errors = FailureCount(outcomes)

(***************************************************************************)
(* C27.  In every reachable state, if the tracked state is set then        *)
(* entered_at is set too.                                                  *)
(***************************************************************************)
C27_TrackedStateHasEntryTime ==
    last_state /= None => state_entered_at /= NoneNum

(***************************************************************************)
(* C29.  The transition records form a chain: each record's old_state is   *)
(* the new_state of the record written just before it, in every run.       *)
(***************************************************************************)
C29_TransitionsChain ==
    \A i \in 1..(Len(state_transitions) - 1) :
        state_transitions[i + 1].old_state = state_transitions[i].new_state

(***************************************************************************)
(* C30.  When polls that run to their end report a sequence p > 0, then    *)
(* one or more times 0, then q > p and then a sequence above q, every      *)
(* ledger x with p <= x < q has been evaluated.                            *)
(***************************************************************************)
C30_ZeroReadingSkipsNothing ==
    CleanRun =>
        \A i, j, k \in DOMAIN reported :
            (/\ i + 1 < j /\ j < k
             /\ reported[i].seq > 0
             /\ \A m \in (i + 1)..(j - 1) : reported[m].seq = 0
             /\ reported[j].seq > reported[i].seq
             /\ reported[k].seq > reported[j].seq)
            => \A x \in reported[i].seq..(reported[j].seq - 1) :
                   x \in ToSet(Evaluated(checked_log))

JustQueriedStats ==
    store_log /= <<>> /\ store_log[Len(store_log)].op = "stats"
\* the records in the window of the last query of the full statistics
StatsWindow ==
    {r \in ledger_validations :
         r.timestamp >= validation_stats.at
                            - validation_stats.hours * SecondsPerHour}
\* a rate that is 0 or 100
ZeroOrHundred(rate) == rate.num = 0 \/ rate.num = 100 * rate.den

C32_NoSelfTransition ==
    /\ \A i \in DOMAIN state_transitions :
          state_transitions[i].old_state /= state_transitions[i].new_state
    /\ (Fetched /\ last.records > 0) => last.state /= last.old_state
    /\ (FailedPoll /\ last.records > 0) => last.old_state /= "unreachable"
    /\ (FailedPoll /\ last.old_state = "unreachable") => last.records = 0

\* a fetch failed while the tracked state was 'unreachable' already, after
\* the escalation had written its record
C32_Witness ==
    /\ FailedPoll /\ last.old_state = "unreachable"
    /\ last.records = 0
    /\ state_transitions /= <<>>
    /\ state_transitions[Len(state_transitions)].new_state = "unreachable"

(***************************************************************************)
(* C33.  At every poll boundary alerts_sent equals state_changes, and both *)
(* equal the number of transition records written since the process        *)
(* started (the alert sink never raises in these runs).                    *)
(***************************************************************************)
C33_CountersMatchRecords ==
    /\ alerts_sent = state_changes
    /\ state_changes = Len(state_transitions)

\* a poll whose write_state_transition failed, after a recorded change:
\* nothing was stored and nothing was counted
C33_Witness ==
    /\ last.kind = "unexpected" /\ last.raised = "StorageError"
    /\ last.old_state /= None /\ last.state /= last.old_state
    /\ last.records = 0 /\ last.alerted = 0
    /\ state_changes = 1 /\ alerts_sent = 1
    /\ Len(state_transitions) = 1

(***************************************************************************)
(* Vocabulary of the properties of a failed validation write.              *)
(***************************************************************************)
\* a validation write failed in the last poll
ValidationWriteFailed == last.kind = "unexpected" /\ last.failed_seq > 0
\* the last poll ran to its end, is the first to do so since a validation
\* write failed, and reports a sequence that covers the gap of that poll
MadeUp ==
    /\ last.kind = "ok" /\ last.pending /= NoPending
    /\ last.seq >= last.pending.seq
\* the sequences evaluated after position n of the log
ChecksAfter(n) ==
    {checked_log[i].seq :
         i \in {j \in (n + 1)..Len(checked_log) : IsCheck(checked_log[j])}}
\* the sequences the last poll's prunings removed
EvictedInLast ==
    UNION {last.log[i].oldest : i \in {j \in DOMAIN last.log :
                                          IsEvict(last.log[j])}}
\* the evaluation at position i of the log comes after a pruning that
\* removed its sequence, with no evaluation of the sequence in between
AfterEviction(i) ==
    \E k \in 1..(i - 1) :
        /\ IsEvict(checked_log[k])
        /\ checked_log[i].seq \in checked_log[k].oldest
        /\ \A m \in (k + 1)..(i - 1) :
               ~(IsCheck(checked_log[m])
                 /\ checked_log[m].seq = checked_log[i].seq)
\* the ledger whose write failed and the later ones of the gap have been
\* evaluated, the failed one after the failure
GapMadeUp ==
    /\ last.pending.failed_seq \in ChecksAfter(last.pending.log_end)
    /\ \A x \in last.pending.failed_seq..(last.pending.seq - 1) :
           x \in ToSet(Evaluated(checked_log))

(***************************************************************************)
(* C31, as claimed.  When write_ledger_validation fails while a poll       *)
(* evaluates a gap, the poll does not advance the tracked sequence, the    *)
(* sequences it had evaluated stay in the seen-set and are not evaluated   *)
(* again, and the failing sequence and the later ones of the gap are       *)
(* evaluated by the end of the next poll that runs to its end.             *)
(***************************************************************************)
C31_FailedWriteLosesNothing ==
    /\ ValidationWriteFailed =>
          /\ last_ledger_seq = last.old_seq
          /\ ToSet(LastChecks) \subseteq checked_ledgers
    /\ MadeUp =>
          /\ GapMadeUp
          /\ last.pending.done \cap ChecksAfter(last.pending.log_end) = {}

(***************************************************************************)
(* C31, amended.  When write_ledger_validation fails while a poll          *)
(* evaluates a gap, the poll does not advance the tracked sequence, the    *)
(* sequences it had evaluated stay in the seen-set unless a pruning        *)
(* removed them and are evaluated again only after such a pruning, and the *)
(* failing sequence and the later ones of the gap are evaluated by the end *)
(* of the next poll that runs to its end.                                  *)
(***************************************************************************)
C31_FailedWriteLosesNothingButEvicted ==
    /\ ValidationWriteFailed =>
          /\ last_ledger_seq = last.old_seq
          /\ (ToSet(LastChecks) \ EvictedInLast) \subseteq checked_ledgers
    /\ MadeUp =>
          /\ GapMadeUp
          /\ \A i \in (last.pending.log_end + 1)..Len(checked_log) :
                 (/\ IsCheck(checked_log[i])
                  /\ checked_log[i].seq \in last.pending.done)
                 => AfterEviction(i)

\* a poll evaluated a ledger and failed on the next one of a gap of three;
\* the next poll ran to its end, skipped the first and evaluated the rest
C31_Witness ==
    /\ MadeUp
    /\ last.pending.done /= {}
    /\ last.pending.seq - last.pending.failed_seq >= 2
    /\ last.pending.done \cap ToSet(LastChecks) = {}
    /\ \A x \in last.pending.failed_seq..(last.pending.seq - 1) :
           x \in ToSet(LastChecks)
    /\ last_ledger_seq = last.seq
====
